---- MODULE Spec2Model ----
(***************************************************************************)
(* A model of first-mcp-server: the outbound HTTP call engine (httpCall,   *)
(* helpers.ts) and the session transport multiplexer of the HTTP           *)
(* deployment (POST/GET/DELETE /mcp, https-server.ts).                     *)
(*                                                                         *)
(* JavaScript strings are sequences of chunks (a chunk is a TLA+ string of *)
(* one or more characters), so that concatenation, encoding and joining    *)
(* are computed and not assumed.  Other JavaScript values are tagged       *)
(* records.  Time is in milliseconds.                                      *)
(***************************************************************************)
EXTENDS Integers, Sequences, FiniteSets, TLC

\* ------------------------------------------------------------------ bounds
NumCalls == 2
MaxTime == 700
Step == 150
RandDenom == 2
MaxTransports == 3

\* ------------------------------------------------------- program constants
DEFAULT_TIMEOUT_MS == 12000
MAX_RETRIES == 2
BackoffBase == 150
JitterSpan == 200

Calls == 1..NumCalls

\* ------------------------------------------------------ JavaScript values
Undefined == [t |-> "undefined"]
JsNull == [t |-> "null"]
JsStr(s) == [t |-> "str", s |-> s]
JsNum(n) == [t |-> "num", n |-> n]
JsBool(b) == [t |-> "bool", b |-> b]
JsObj(o) == [t |-> "obj", o |-> o]
JsArr(a) == [t |-> "arr", a |-> a]
JsError(m) == [t |-> "error", message |-> m]

\* Decimal digits of a small natural number, as chunks.
RECURSIVE Digits(_)
Digits(n) ==
  IF n < 10 THEN <<SubSeq(<<"0","1","2","3","4","5","6","7","8","9">>, n + 1, n + 1)[1]>>
  ELSE Digits(n \div 10) \o Digits(n % 10)

\* Mutant: String.prototype.toLowerCase left out.
toLowerCase_Identity(s) == s

\* String(v)
ToStr(v) ==
  CASE v.t = "str" -> v.s
    [] v.t = "num" -> IF v.n < 0 THEN <<"-">> \o Digits(0 - v.n) ELSE Digits(v.n)
    [] v.t = "bool" -> IF v.b THEN <<"true">> ELSE <<"false">>
    [] v.t = "null" -> <<"null">>
    [] v.t = "undefined" -> <<"undefined">>
    [] v.t = "error" -> <<"Error: ">> \o v.message
    [] OTHER -> <<"[object Object]">>

RECURSIVE Join(_, _)
Join(ss, sep) ==
  IF ss = <<>> THEN <<>>
  ELSE IF Len(ss) = 1 THEN ss[1]
  ELSE ss[1] \o sep \o Join(Tail(ss), sep)

RECURSIVE SelectSeqOf(_, _)
SelectSeqOf(s, keep) ==
  IF s = <<>> THEN <<>>
  ELSE IF s[1] \in keep THEN <<s[1]>> \o SelectSeqOf(Tail(s), keep)
  ELSE SelectSeqOf(Tail(s), keep)

\* ------------------------------------------------------ encodeURIComponent
\* A lone surrogate code unit (for example "\uD800"): not encodable.
LoneSurrogate == "\\uD800"
Unreserved ==
  {"a", "b", "e", "q", "p", "x", "-", "0", "1", "2", "3", "4", "5", "6", "7", "8", "9",
   "true", "false", "TRUE", "NaN", "Infinity"}
PercentOf(ch) ==
  CASE ch = " " -> <<"%20">>
    [] ch = "&" -> <<"%26">>
    [] ch = "=" -> <<"%3D">>
    [] ch = "?" -> <<"%3F">>
    [] OTHER -> <<"%3F">>

UriMalformed(s) == \E i \in 1..Len(s) : s[i] = LoneSurrogate

RECURSIVE encodeURIComponent(_)
encodeURIComponent(s) ==
  IF s = <<>> THEN <<>>
  ELSE (IF s[1] \in Unreserved THEN <<s[1]>> ELSE PercentOf(s[1]))
       \o encodeURIComponent(Tail(s))

\* -------------------------------------------------------------- helpers.ts
Contains(s, chunk) == \E i \in 1..Len(s) : s[i] = chunk

LowerChunk(ch) ==
  CASE ch = "Authorization" -> "authorization"
    [] ch = "AUTHORIZATION" -> "authorization"
    [] ch = "Api-Key" -> "api-key"
    [] ch = "X-" -> "x-"
    [] OTHER -> ch

toLowerCase(s) == [i \in 1..Len(s) |-> LowerChunk(s[i])]

Redacted == <<"[redacted]">>

\* Mutant: only the api-key headers are redacted.
redactHeaders_ApiKeyOnly(headers) ==
  [k \in DOMAIN headers |->
     IF Contains(toLowerCase(k), "api-key") THEN Redacted ELSE headers[k]]

redactHeaders(headers) ==
  [k \in DOMAIN headers |->
     LET lower == toLowerCase(k)
     IN IF Contains(lower, "authorization") \/ Contains(lower, "api-key")
        THEN Redacted ELSE headers[k]]

\* JSON.parse on the sample bodies: the parsed value, or a throw.
IsQuoted(text) ==
  /\ Len(text) >= 2
  /\ text[1] = "\"" /\ text[Len(text)] = "\""
  /\ \A i \in 2..(Len(text) - 1) : text[i] # "\""

JsonParses(text) == text \in {<<"{\"a\":1}">>, <<"null">>, <<"5">>} \/ IsQuoted(text)
JsonValue(text) ==
  CASE text = <<"{\"a\":1}">> -> JsObj([a |-> 1])
    [] IsQuoted(text) -> JsStr(SubSeq(text, 2, Len(text) - 1))
    [] text = <<"null">> -> JsNull
    [] text = <<"5">> -> JsNum(5)
    [] OTHER -> Undefined

asJsonMaybe(text) == IF JsonParses(text) THEN JsonValue(text) ELSE Undefined

\* A function overridden by another (object spread: later keys win).
Spread(f, g) ==
  [k \in (DOMAIN f) \cup (DOMAIN g) |-> IF k \in DOMAIN g THEN g[k] ELSE f[k]]

EmptyObj == [k \in {} |-> <<>>]
OneHeader(k, v) == [x \in {k} |-> v]

\* The entries of the query that are serialized (line 52).
QueryKept(query) ==
  SelectSeqOf(query.a, {e \in {query.a[i] : i \in 1..Len(query.a)} :
                          e.v # Undefined /\ e.v # JsNull})

\* query && Object.keys(query).length
HasQuery(query) == query.t = "arr" /\ Len(query.a) > 0

QueryThrows(query) ==
  HasQuery(query) /\
  \E i \in 1..Len(QueryKept(query)) :
     UriMalformed(QueryKept(query)[i].k) \/ UriMalformed(ToStr(QueryKept(query)[i].v))

QueryString(query) ==
  IF HasQuery(query)
  THEN <<"?">> \o
       Join([i \in 1..Len(QueryKept(query)) |->
               encodeURIComponent(QueryKept(query)[i].k) \o <<"=">> \o
               encodeURIComponent(ToStr(QueryKept(query)[i].v))], <<"&">>)
  ELSE <<>>

Target(opts) == opts.url \o QueryString(opts.query)

\* body == null ? undefined : typeof body === "string" ? body : JSON.stringify(body)
StringifyThrows(body) == body.t = "obj" /\ "circular" \in DOMAIN body.o
Payload(body) ==
  IF body = Undefined \/ body = JsNull THEN Undefined
  ELSE IF body.t = "str" THEN body
  ELSE JsStr(<<"{\"a\":1}">>)

\* payload ? ... : ...   (the empty string is falsy)
Truthy(v) ==
  CASE v.t = "undefined" -> FALSE
    [] v.t = "null" -> FALSE
    [] v.t = "str" -> v.s # <<>>
    [] v.t = "num" -> v.n # 0
    [] v.t = "bool" -> v.b
    [] OTHER -> TRUE

FinalHeaders(opts, token) ==
  Spread(Spread(Spread(OneHeader(<<"user-agent">>, <<"mcp-api-tester/1.0">>),
                       IF Truthy(Payload(opts.body))
                       THEN OneHeader(<<"content-type">>, <<"application/json">>)
                       ELSE EmptyObj),
                IF token # <<>> THEN OneHeader(<<"authorization">>, token) ELSE EmptyObj),
         opts.headers)

TimeoutOf(opts) == IF opts.timeoutMs = Undefined THEN DEFAULT_TIMEOUT_MS ELSE opts.timeoutMs.n

\* ------------------------------------------------------------ environment
\* The configured bearer tokens of a process (API_TOKEN, "" when unset).
Tokens == {<<>>, <<"Bearer xyz">>}

\* The CallRequests the callers issue.
ReqPlain ==
  [url |-> <<"https://example.test/timeout">>, method |-> "GET", headers |-> EmptyObj,
   query |-> Undefined, body |-> Undefined, timeoutMs |-> JsNum(50)]
ReqFull ==
  [url |-> <<"https://example.test/ok">>, method |-> "POST",
   headers |-> OneHeader(<<"X-", "Api-Key">>, <<"k1">>),
   query |-> JsArr(<< [k |-> <<"q">>, v |-> JsStr(<<"a", "&", "b">>)],
                [k |-> <<"p">>, v |-> JsNull],
                [k |-> <<"x">>, v |-> JsNum(15)] >>),
   body |-> JsStr(<<"{\"a\":1}">>), timeoutMs |-> JsNum(300)]
ReqBadQuery ==
  [url |-> <<"https://example.test/ok">>, method |-> "GET", headers |-> EmptyObj,
   query |-> JsArr(<< [k |-> <<"q">>, v |-> JsStr(<<LoneSurrogate>>)] >>),
   body |-> Undefined, timeoutMs |-> Undefined]
ReqCircularBody ==
  [url |-> <<"https://example.test/ok">>, method |-> "PUT", headers |-> EmptyObj,
   query |-> Undefined, body |-> JsObj([circular |-> TRUE]), timeoutMs |-> Undefined]
ReqEmptyBody ==
  [url |-> <<"https://example.test/ok">>, method |-> "POST",
   headers |-> OneHeader(<<"Authorization">>, <<"Basic abc">>),
   query |-> Undefined, body |-> JsStr(<<>>), timeoutMs |-> JsNum(50)]
Requests == {ReqPlain, ReqFull, ReqBadQuery, ReqCircularBody, ReqEmptyBody}

\* What the network answers: a status line with raw headers, then a body.
Responses ==
  { [statusCode |-> 200, headers |-> OneHeader(<<"content-type">>, JsStr(<<"application/json">>))],
    [statusCode |-> 299, headers |-> EmptyObj],
    [statusCode |-> 300, headers |-> OneHeader(<<"location">>, JsStr(<<"/x">>))],
    [statusCode |-> 500, headers |-> OneHeader(<<"set-cookie">>, JsArr(<< <<"a=1">>, <<"b=2">> >>))] }
Bodies == { <<"{\"a\":1}">>, <<"hello">>, <<>>, <<"null">> }
ConnectErrors == { JsError(<<"connect ECONNREFUSED">>) }
BodyErrors == { JsError(<<"other side closed">>) }
TimeoutError == JsError(<<"timeout">>)

\* The two environments explored: one caller with every request and answer above,
\* or NumCalls concurrent callers of one endpoint that answers 500 with a text body.
Single ==
  [calls |-> {1}, requests |-> Requests, responses |-> Responses, bodies |-> Bodies,
   tokens |-> Tokens, horizon |-> MaxTime]
Concurrent ==
  [calls |-> Calls, requests |-> {ReqPlain},
   responses |-> {r \in Responses : r.statusCode = 500}, bodies |-> {<<"hello">>},
   tokens |-> {<<>>}, horizon |-> MaxTime \div 4]

\* Texts of 8000 and 8001 characters, and a JSON string literal of 8001.
X10 == "xxxxxxxxxx"
X100 == X10 \o X10 \o X10 \o X10 \o X10 \o X10 \o X10 \o X10 \o X10 \o X10
X1000 == X100 \o X100 \o X100 \o X100 \o X100 \o X100 \o X100 \o X100 \o X100 \o X100
Text8000 == [i \in 1..8 |-> X1000]
Text8001 == Text8000 \o <<"y">>
Json8001 == <<"\"">> \o [i \in 1..7 |-> X1000] \o <<SubSeq(X1000, 1, 999), "\"">>

\* The arguments of http_request the clients send.  The values of query are
\* strings; the schema lets any string through.
ArgsOf(url, method, headers, query, body) ==
  [url |-> url, method |-> method, headers |-> headers, query |-> query, body |-> body,
   timeoutMs |-> JsNum(50)]
QueryOf(v) == JsArr(<< [k |-> <<"q">>, v |-> JsStr(v)] >>)
QueryStrings ==
  { <<"true">>, <<"false">>, <<"5">>, <<" ", "5">>, <<>>, <<" ", " ">>, <<"NaN">>,
    <<"1", "e", "9">>, <<"a", "b">>, <<"Infinity">>, <<"TRUE">>, <<"-", "1", "5", " ">>,
    <<LoneSurrogate>> }
ToolArgs ==
  { ArgsOf(<<"https://example.test/ok">>, Undefined, Undefined, QueryOf(v), Undefined) :
      v \in QueryStrings }
  \cup
  { ArgsOf(<<"https://example.test/ok">>, JsStr("POST"),
           JsObj(OneHeader(<<"X-", "Api-Key">>, <<"k1">>)),
           JsArr(<< [k |-> <<"a">>, v |-> JsStr(<<"true">>)],
                    [k |-> <<"b">>, v |-> JsStr(<<"x">>)] >>),
           JsStr(<<"{\"a\":1}">>)),
    ArgsOf(<<"https://example.test/ok">>, Undefined,
           JsObj(OneHeader(<<"authorization">>, <<"Basic abc">>)), Undefined, Undefined),
    ArgsOf(<<>>, Undefined, Undefined, Undefined, Undefined) }

ToolEnv ==
  [calls |-> {1}, requests |-> {},
   responses |-> {r \in Responses : r.statusCode \in {200, 500}},
   bodies |-> { <<"{\"a\":1}">>, <<"null">>, Text8000, Text8001, Json8001 },
   tokens |-> {<<"Bearer xyz">>, <<"Bearer abc">>}, horizon |-> MaxTime]

\* ------------------------------------- session identifiers and responses
\* Session identifiers are the UUIDs the transports mint, numbered in the
\* order minted.  A request's mcp-session-id header is absent, or a string.
NoHeader == [k |-> "absent"]
StrHeader(v) == [k |-> "str", v |-> v]
UuidHeader(n) == [k |-> "uuid", n |-> n]

\* Names every JavaScript object inherits from Object.prototype.
ObjectPrototypeKeys == {"constructor", "toString", "__proto__"}

Transports == 1..MaxTransports
HeaderValues ==
  {NoHeader, StrHeader(""), StrHeader("constructor")}
    \cup {UuidHeader(n) : n \in Transports}

RejectCode == 0 - 32000
RejectMessage == "Bad Request: No valid session ID provided"
PlainReject == "Invalid or missing session ID"

NoTransport == [constructed |-> FALSE, sessionId |-> 0, closed |-> FALSE, server |-> 0]
EmptyMap == [n \in {} |-> 0]

Event(kind, hdr, init, outcome, t, status, code, message) ==
  [kind |-> kind, hdr |-> hdr, init |-> init, outcome |-> outcome, transport |-> t,
   status |-> status, code |-> code, message |-> message]

\* ---------------------------------------------------------------- state
VARIABLES
  env,          \* the environment explored: "single" or "concurrent"
  now,          \* the clock, ms
  API_TOKEN,    \* process configuration
  pc,           \* per call: idle | request | body | delay | returned | threw
  opts,         \* per call: the CallRequest
  attempt,      \* per call: the loop counter
  timers,       \* per call: armed abort timers [attempt, deadline]
  wake,         \* per call: when the pending backoff delay resolves
  res,          \* per call: the response whose body is being read
  lastErr,      \* per call
  started,      \* per call: Date.now() at line 74
  result,       \* per call: the returned CallResult
  inflight,     \* per call: attempts whose network operation is open
  attemptStart, \* per call: when the current attempt began
  attemptsMade, \* per call: how many times request() was called
  gotResponse,  \* per call: how many attempts resolved request()
  bodiesRead,   \* per call: how many attempts read their body to the end
  delayMs,      \* per call: the argument of the last delay(), -1 before any
  delays,       \* per call: how many times delay() was called
  failedAt,     \* per call: when the last failed attempt ended
  rawBody,      \* per call: the body text the network delivered
  timedOut      \* per call: how many attempts their timer aborted

httpVars == <<env, now, API_TOKEN, pc, opts, attempt, timers, wake, res, lastErr, started,
              result, inflight, attemptStart, attemptsMade, gotResponse, bodiesRead,
              delayMs, delays, failedAt, rawBody, timedOut>>

VARIABLES
  transports,    \* the session map: session id -> transport
  tobj,          \* the transports constructed: sessionId (0: undefined), closed, server
  pending,       \* transports whose creating POST awaits server.connect
  nextTransport, \* how many transports were constructed
  nextServer,    \* how many McpServer instances were constructed
  nextUuid,      \* how many session ids were minted
  mintedBy,      \* session id -> the transport that minted it (0: none)
  deletions,     \* session id -> how many times its entry was deleted
  ev             \* the last handler step: request, outcome, response

muxVars == <<transports, tobj, pending, nextTransport, nextServer, nextUuid, mintedBy,
             deletions, ev>>

VARIABLES
  targs,  \* the arguments of the http_request invocation
  tpc,    \* the tool handler: idle | awaiting | returned | rejected
  tout    \* what the tool handler returned

toolVars == <<targs, tpc, tout>>

vars == <<httpVars, muxVars, toolVars>>

Env ==
  CASE env = "single" -> Single
    [] env = "concurrent" -> Concurrent
    [] OTHER -> ToolEnv

NoArgs == [url |-> <<>>]
NoOutput == [content |-> <<>>]

NoResult == [status |-> -1]
NoRes == [statusCode |-> -1]

Init ==
  /\ env \in {"single", "concurrent", "tool"}
  /\ now = 0
  /\ API_TOKEN \in Env.tokens
  /\ pc = [c \in Calls |-> "idle"]
  /\ opts = [c \in Calls |-> ReqPlain]
  /\ attempt = [c \in Calls |-> 0]
  /\ timers = [c \in Calls |-> {}]
  /\ wake = [c \in Calls |-> 0]
  /\ res = [c \in Calls |-> NoRes]
  /\ lastErr = [c \in Calls |-> Undefined]
  /\ started = [c \in Calls |-> 0]
  /\ result = [c \in Calls |-> NoResult]
  /\ inflight = [c \in Calls |-> {}]
  /\ attemptStart = [c \in Calls |-> 0]
  /\ attemptsMade = [c \in Calls |-> 0]
  /\ gotResponse = [c \in Calls |-> 0]
  /\ bodiesRead = [c \in Calls |-> 0]
  /\ delayMs = [c \in Calls |-> -1]
  /\ delays = [c \in Calls |-> 0]
  /\ failedAt = [c \in Calls |-> 0]
  /\ rawBody = [c \in Calls |-> <<>>]
  /\ timedOut = [c \in Calls |-> 0]
  /\ transports = EmptyMap
  /\ tobj = [t \in Transports |-> NoTransport]
  /\ pending = {}
  /\ nextTransport = 0
  /\ nextServer = 0
  /\ nextUuid = 0
  /\ mintedBy = [n \in Transports |-> 0]
  /\ deletions = [n \in Transports |-> 0]
  /\ ev = Event("none", NoHeader, FALSE, "none", 0, 0, 0, "")
  /\ targs = NoArgs
  /\ tpc = "idle"
  /\ tout = NoOutput

\* ------------------------------------------------------------- httpCall
\* Math.random() is r / RandDenom for r in 0..RandDenom-1, so it lies in [0,1).
Randoms == 0..(RandDenom - 1)

\* Mutant: the backoff counts attempts from zero.
BackoffDelay_ZeroBased(a, r) == BackoffBase * a + (r * JitterSpan) \div RandDenom

\* 150 * (attempt + 1) + Math.random() * 200, in whole milliseconds
BackoffDelay(a, r) == BackoffBase * (a + 1) + (r * JitterSpan) \div RandDenom

\* Mutant: the loop test is strict, one attempt short.
LoopContinues_OffByOne(a) == a < MAX_RETRIES

\* for (attempt = 0; attempt <= MAX_RETRIES; attempt++)
LoopContinues(a) == a <= MAX_RETRIES

\* if (attempt < MAX_RETRIES) in the catch block
RetryAfter(a) == a < MAX_RETRIES

\* Response headers flattened to single values (lines 94-97).
NormalizeHeaders(raw) ==
  [k \in DOMAIN raw |-> IF raw[k].t = "arr" THEN Join(raw[k].a, <<", ">>) ELSE ToStr(raw[k])]

\* Mutant: no upper bound on the status.
IsOk_NoUpperBound(status) == status >= 200

\* res.statusCode >= 200 && res.statusCode < 300
IsOk(status) == status >= 200 /\ status < 300

\* Mutant: the latency is measured from the start of the last attempt.
SuccessResult_LastAttemptLatency(c, text) ==
  [ok |-> IsOk(res[c].statusCode),
   status |-> res[c].statusCode,
   latencyMs |-> now - attemptStart[c],
   headers |-> NormalizeHeaders(res[c].headers),
   text |-> text,
   json |-> asJsonMaybe(text),
   url |-> Target(opts[c]),
   method |-> opts[c].method,
   requestHeaders |-> redactHeaders(FinalHeaders(opts[c], API_TOKEN))]

\* The result built from a response (lines 91-109).
SuccessResult(c, text) ==
  [ok |-> IsOk(res[c].statusCode),
   status |-> res[c].statusCode,
   latencyMs |-> now - started[c],
   headers |-> NormalizeHeaders(res[c].headers),
   text |-> text,
   json |-> asJsonMaybe(text),
   url |-> Target(opts[c]),
   method |-> opts[c].method,
   requestHeaders |-> redactHeaders(FinalHeaders(opts[c], API_TOKEN))]

\* String(lastErr instanceof Error ? lastErr.message : lastErr)
ErrorText(err) == IF err.t = "error" THEN err.message ELSE ToStr(err)

FailureResult(c, err) ==
  [ok |-> FALSE,
   status |-> 0,
   latencyMs |-> now - started[c],
   headers |-> EmptyObj,
   text |-> <<>>,
   json |-> Undefined,
   url |-> Target(opts[c]),
   method |-> opts[c].method,
   requestHeaders |-> redactHeaders(FinalHeaders(opts[c], API_TOKEN)),
   error |-> ErrorText(err)]

\* Mutant: the abort does not reach the network operation.
AfterAbort_NotCancelled(c) == inflight[c]

\* The network operation of the current attempt after the controller aborted
\* it (the signal is passed to request()).
AfterAbort(c) == inflight[c] \ {attempt[c]}

\* The network operation of the current attempt after it ended by itself.
AfterEnd(c) == inflight[c] \ {attempt[c]}

\* The try block up to `await request(...)`: a controller, its timer, the request.
BeginAttempt(c, o, a, tms) ==
  /\ timers' = [timers EXCEPT ![c] = tms \cup {[attempt |-> a, deadline |-> now + TimeoutOf(o)]}]
  /\ inflight' = [inflight EXCEPT ![c] = @ \cup {a}]
  /\ attempt' = [attempt EXCEPT ![c] = a]
  /\ attemptStart' = [attemptStart EXCEPT ![c] = now]
  /\ attemptsMade' = [attemptsMade EXCEPT ![c] = @ + 1]
  /\ pc' = [pc EXCEPT ![c] = "request"]

\* httpCall(opts) up to its first await, as run by any caller.
Enter(c, o) ==
  /\ pc[c] = "idle"
  /\ opts' = [opts EXCEPT ![c] = o]
  /\ IF QueryThrows(o.query) \/ StringifyThrows(o.body)
     THEN /\ pc' = [pc EXCEPT ![c] = "threw"]
          /\ UNCHANGED <<started, timers, inflight, attempt, attemptStart, attemptsMade>>
     ELSE /\ started' = [started EXCEPT ![c] = now]
          /\ IF LoopContinues(0)
             THEN BeginAttempt(c, o, 0, timers[c])
             ELSE /\ pc' = [pc EXCEPT ![c] = "returned"]
                  /\ UNCHANGED <<timers, inflight, attempt, attemptStart, attemptsMade>>
  /\ result' = IF ~(QueryThrows(o.query) \/ StringifyThrows(o.body)) /\ ~LoopContinues(0)
               THEN [result EXCEPT ![c] = FailureResult(c, Undefined)]
               ELSE result
  /\ UNCHANGED <<env, now, API_TOKEN, wake, res, lastErr, gotResponse, bodiesRead, delayMs,
                 delays, failedAt, rawBody, timedOut>>

\* httpCall(opts) called directly.
Call(c, o) == Enter(c, o) /\ UNCHANGED <<muxVars, toolVars>>

\* The catch block (lines 110-116) and, after the last attempt, the return of
\* the failure result (lines 119-132).
Catch(c, err, r) ==
  /\ lastErr' = [lastErr EXCEPT ![c] = err]
  /\ failedAt' = [failedAt EXCEPT ![c] = now]
  /\ IF RetryAfter(attempt[c])
     THEN /\ delayMs' = [delayMs EXCEPT ![c] = BackoffDelay(attempt[c], r)]
          /\ delays' = [delays EXCEPT ![c] = @ + 1]
          /\ wake' = [wake EXCEPT ![c] = now + BackoffDelay(attempt[c], r)]
          /\ pc' = [pc EXCEPT ![c] = "delay"]
          /\ UNCHANGED result
     ELSE /\ pc' = [pc EXCEPT ![c] = "returned"]
          /\ result' = [result EXCEPT ![c] = FailureResult(c, err)]
          /\ UNCHANGED <<delayMs, delays, wake>>

\* request() rejects: connection refused, reset, DNS failure.
RequestFails(c, err, r) ==
  /\ pc[c] = "request"
  /\ Catch(c, err, r)
  /\ inflight' = [inflight EXCEPT ![c] = AfterEnd(c)]
  /\ UNCHANGED <<env, now, API_TOKEN, opts, attempt, timers, res, started, attemptStart,
                 attemptsMade, gotResponse, bodiesRead, rawBody, timedOut>>
  /\ UNCHANGED <<muxVars, toolVars>>

\* Mutant: one controller is shared by the attempts of a call, so that any
\* timer of the call aborts the attempt in flight.
TimerFires_SharedController(c, tm, r) ==
  /\ tm \in timers[c]
  /\ tm.deadline <= now
  /\ timers' = [timers EXCEPT ![c] = @ \ {tm}]
  /\ IF pc[c] = "request"
     THEN /\ Catch(c, TimeoutError, r)
          /\ inflight' = [inflight EXCEPT ![c] = AfterAbort(c)]
          /\ timedOut' = [timedOut EXCEPT ![c] = @ + 1]
     ELSE UNCHANGED <<lastErr, failedAt, delayMs, delays, wake, pc, result, inflight,
                      timedOut>>
  /\ UNCHANGED <<env, now, API_TOKEN, opts, attempt, res, started, attemptStart,
                 attemptsMade, gotResponse, bodiesRead, rawBody>>
  /\ UNCHANGED <<muxVars, toolVars>>

\* A timer fires: ctl.abort(new Error("timeout")) on that attempt's controller.
TimerFires(c, tm, r) ==
  /\ tm \in timers[c]
  /\ tm.deadline <= now
  /\ timers' = [timers EXCEPT ![c] = @ \ {tm}]
  /\ IF pc[c] = "request" /\ attempt[c] = tm.attempt
     THEN /\ Catch(c, TimeoutError, r)
          /\ inflight' = [inflight EXCEPT ![c] = AfterAbort(c)]
          /\ timedOut' = [timedOut EXCEPT ![c] = @ + 1]
     ELSE UNCHANGED <<lastErr, failedAt, delayMs, delays, wake, pc, result, inflight,
                      timedOut>>
  /\ UNCHANGED <<env, now, API_TOKEN, opts, attempt, res, started, attemptStart,
                 attemptsMade, gotResponse, bodiesRead, rawBody>>
  /\ UNCHANGED <<muxVars, toolVars>>

\* The timers left armed by clearTimeout(t) at line 88.
ClearTimeout(c) == {tm \in timers[c] : tm.attempt # attempt[c]}

\* request() resolves: the status line and headers arrived.
ResponseArrives(c, rsp) ==
  /\ pc[c] = "request"
  /\ timers' = [timers EXCEPT ![c] = ClearTimeout(c)]
  /\ res' = [res EXCEPT ![c] = rsp]
  /\ gotResponse' = [gotResponse EXCEPT ![c] = @ + 1]
  /\ pc' = [pc EXCEPT ![c] = "body"]
  /\ UNCHANGED <<env, now, API_TOKEN, opts, attempt, wake, lastErr, started, result, inflight,
                 attemptStart, attemptsMade, bodiesRead, delayMs, delays, failedAt, rawBody,
                 timedOut>>
  /\ UNCHANGED <<muxVars, toolVars>>

\* Mutant: a server error is thrown after the body was read, and so retried.
BodyRead_RetryOnServerError(c, text) ==
  /\ pc[c] = "body"
  /\ bodiesRead' = [bodiesRead EXCEPT ![c] = @ + 1]
  /\ rawBody' = [rawBody EXCEPT ![c] = text]
  /\ inflight' = [inflight EXCEPT ![c] = AfterEnd(c)]
  /\ IF res[c].statusCode >= 500
     THEN Catch(c, JsError(<<"server error">>), 0)
     ELSE /\ result' = [result EXCEPT ![c] = SuccessResult(c, text)]
          /\ pc' = [pc EXCEPT ![c] = "returned"]
          /\ UNCHANGED <<lastErr, failedAt, delayMs, delays, wake>>
  /\ UNCHANGED <<env, now, API_TOKEN, opts, attempt, timers, res, started,
                 attemptStart, attemptsMade, gotResponse, timedOut>>
  /\ UNCHANGED <<muxVars, toolVars>>

\* res.body.text() resolves: the result is built and returned.
BodyRead(c, text) ==
  /\ pc[c] = "body"
  /\ result' = [result EXCEPT ![c] = SuccessResult(c, text)]
  /\ bodiesRead' = [bodiesRead EXCEPT ![c] = @ + 1]
  /\ rawBody' = [rawBody EXCEPT ![c] = text]
  /\ inflight' = [inflight EXCEPT ![c] = AfterEnd(c)]
  /\ pc' = [pc EXCEPT ![c] = "returned"]
  /\ UNCHANGED <<env, now, API_TOKEN, opts, attempt, timers, wake, res, lastErr, started,
                 attemptStart, attemptsMade, gotResponse, delayMs, delays, failedAt, timedOut>>
  /\ UNCHANGED <<muxVars, toolVars>>

\* res.body.text() rejects: the connection broke while the body was read.
BodyFails(c, err, r) ==
  /\ pc[c] = "body"
  /\ Catch(c, err, r)
  /\ inflight' = [inflight EXCEPT ![c] = AfterEnd(c)]
  /\ UNCHANGED <<env, now, API_TOKEN, opts, attempt, timers, res, started, attemptStart,
                 attemptsMade, gotResponse, bodiesRead, rawBody, timedOut>>
  /\ UNCHANGED <<muxVars, toolVars>>

\* delay() resolves: continue, attempt++, the loop test, the next attempt.
DelayElapsed(c) ==
  /\ pc[c] = "delay"
  /\ wake[c] <= now
  /\ IF LoopContinues(attempt[c] + 1)
     THEN /\ BeginAttempt(c, opts[c], attempt[c] + 1, timers[c])
          /\ UNCHANGED result
     ELSE /\ pc' = [pc EXCEPT ![c] = "returned"]
          /\ attempt' = [attempt EXCEPT ![c] = @ + 1]
          /\ result' = [result EXCEPT ![c] = FailureResult(c, lastErr[c])]
          /\ UNCHANGED <<timers, inflight, attemptStart, attemptsMade>>
  /\ UNCHANGED <<env, now, API_TOKEN, opts, wake, res, lastErr, started, gotResponse,
                 bodiesRead, delayMs, delays, failedAt, rawBody, timedOut>>
  /\ UNCHANGED <<muxVars, toolVars>>

\* ------------------------------------------------------------------ time
Deadlines ==
  UNION {{tm.deadline : tm \in timers[c]} : c \in Calls}
    \cup {wake[c] : c \in {x \in Calls : pc[x] = "delay"}}

\* Time passes, never past a timer that is due: to the next deadline, or by Step.
Tick ==
  /\ \E c \in Calls : pc[c] \in {"request", "body", "delay"}
  /\ \E t \in {now + Step} \cup Deadlines :
       /\ t > now
       /\ t <= Env.horizon
       /\ \A d \in Deadlines : t <= d
       /\ now' = t
  /\ UNCHANGED <<env, API_TOKEN, pc, opts, attempt, timers, wake, res, lastErr, started,
                 result, inflight, attemptStart, attemptsMade, gotResponse, bodiesRead,
                 delayMs, delays, failedAt, rawBody, timedOut>>
  /\ UNCHANGED <<muxVars, toolVars>>

HttpNext ==
  \/ \E c \in Env.calls, o \in Env.requests : Call(c, o)
  \/ \E c \in Env.calls, e \in ConnectErrors, r \in Randoms : RequestFails(c, e, r)
  \/ \E c \in Env.calls, r \in Randoms : \E tm \in timers[c] : TimerFires(c, tm, r)
  \/ \E c \in Env.calls, rsp \in Env.responses : ResponseArrives(c, rsp)
  \/ \E c \in Env.calls, b \in Env.bodies : BodyRead(c, b)
  \/ \E c \in Env.calls, e \in BodyErrors, r \in Randoms : BodyFails(c, e, r)
  \/ \E c \in Env.calls : DelayElapsed(c)
  \/ Tick


\* =========================================== session transport multiplexer
\* Mutant: any header that is present counts as a session identifier.
HeaderTruthy_EmptyIsId(h) == h.k # "absent"

\* sessionId as a condition: undefined and "" are falsy.
HeaderTruthy(h) == h.k = "uuid" \/ (h.k = "str" /\ h.v # "")

\* transports[sessionId] on a plain object: an own entry, else what
\* Object.prototype provides under that name, else undefined.
Lookup(h) ==
  IF h.k = "uuid" /\ h.n \in DOMAIN transports
  THEN [t |-> "transport", id |-> transports[h.n]]
  ELSE IF h.k = "str" /\ h.v \in ObjectPrototypeKeys
  THEN [t |-> "inherited", id |-> 0]
  ELSE [t |-> "undefined", id |-> 0]

LookupTruthy(h) == Lookup(h).t # "undefined"

\* Mutant: the callback does not store the transport.
OnSessionInitialized_Dropped(sid, t) == transports

\* Mutant: the callback stores the transport constructed last (a variable
\* shared by the requests) instead of the one of its own request.
OnSessionInitialized_Shared(sid, t) ==
  [n \in (DOMAIN transports) \cup {sid} |-> IF n = sid THEN nextTransport ELSE transports[n]]

\* onsessioninitialized: transports[sessionId] = transport   (lines 389-392)
OnSessionInitialized(sid, t) ==
  [n \in (DOMAIN transports) \cup {sid} |-> IF n = sid THEN t ELSE transports[n]]

\* Mutant: the closure callback empties the session map.
OnClose_ClearsMap(t) == EmptyMap

\* Mutant: the closure callback leaves the entry in place.
OnClose_NoCleanup(t) == transports

\* transport.onclose: delete transports[transport.sessionId], when it has one
OnClose(t) ==
  IF tobj[t].sessionId # 0
  THEN [n \in (DOMAIN transports) \ {tobj[t].sessionId} |-> transports[n]]
  ELSE transports

\* POST /mcp up to its first await (lines 377-525).
PostMcp(h, init) ==
  /\ IF HeaderTruthy(h) /\ LookupTruthy(h)
     THEN \* reuse: transport = transports[sessionId]; transport.handleRequest(...)
          /\ ev' = IF Lookup(h).t = "transport"
                   THEN Event("POST", h, init, "routed", Lookup(h).id, 0, 0, "")
                   ELSE Event("POST", h, init, "TypeError", 0, 0, 0, "")
          /\ UNCHANGED <<transports, tobj, pending, nextTransport, nextServer>>
     ELSE IF ~HeaderTruthy(h) /\ init
     THEN \* a new transport and server; await server.connect(transport)
          /\ nextTransport < MaxTransports
          /\ nextTransport' = nextTransport + 1
          /\ nextServer' = nextServer + 1
          /\ tobj' = [tobj EXCEPT ![nextTransport + 1] =
                        [constructed |-> TRUE, sessionId |-> 0, closed |-> FALSE,
                         server |-> nextServer + 1]]
          /\ pending' = pending \cup {nextTransport + 1}
          /\ ev' = Event("POST", h, init, "created", nextTransport + 1, 0, 0, "")
          /\ UNCHANGED transports
     ELSE \* res.status(400).json({error: {code: -32000, ...}})
          /\ ev' = Event("POST", h, init, "rejected", 0, 400, RejectCode, RejectMessage)
          /\ UNCHANGED <<transports, tobj, pending, nextTransport, nextServer>>
  /\ UNCHANGED <<nextUuid, mintedBy, deletions>>
  /\ UNCHANGED <<httpVars, toolVars>>

\* The creating POST resumes: transport.handleRequest(req, res, req.body) with
\* the initialization message.  The transport either refuses the request
\* (headers, host allow-list) or initializes: it mints its session id and
\* calls onsessioninitialized.
PostDispatch(t, accepted) ==
  /\ t \in pending
  /\ pending' = pending \ {t}
  /\ IF accepted
     THEN /\ nextUuid' = nextUuid + 1
          /\ tobj' = [tobj EXCEPT ![t].sessionId = nextUuid + 1]
          /\ transports' = OnSessionInitialized(nextUuid + 1, t)
          /\ mintedBy' = [mintedBy EXCEPT ![nextUuid + 1] = t]
          /\ ev' = Event("POST-dispatch", UuidHeader(nextUuid + 1), TRUE, "initialized",
                         t, 200, 0, "")
     ELSE /\ ev' = Event("POST-dispatch", NoHeader, TRUE, "refused", t, 400, 0, "")
          /\ UNCHANGED <<nextUuid, tobj, transports, mintedBy>>
  /\ UNCHANGED <<nextTransport, nextServer, deletions>>
  /\ UNCHANGED <<httpVars, toolVars>>

\* handleSessionRequest for GET and DELETE (lines 529-538).  A DELETE that the
\* transport accepts closes it, which runs transport.onclose.
SessionRequest(method, h, accepted) ==
  /\ IF ~HeaderTruthy(h) \/ ~LookupTruthy(h)
     THEN /\ ev' = Event(method, h, FALSE, "rejected", 0, 400, 0, PlainReject)
          /\ UNCHANGED <<transports, tobj, deletions>>
     ELSE IF Lookup(h).t = "inherited"
     THEN /\ ev' = Event(method, h, FALSE, "TypeError", 0, 0, 0, "")
          /\ UNCHANGED <<transports, tobj, deletions>>
     ELSE IF method = "DELETE" /\ accepted
     THEN /\ tobj' = [tobj EXCEPT ![Lookup(h).id].closed = TRUE]
          /\ transports' = OnClose(Lookup(h).id)
          /\ deletions' = [n \in Transports |->
                             IF n \in DOMAIN transports /\ n \notin DOMAIN OnClose(Lookup(h).id)
                             THEN deletions[n] + 1 ELSE deletions[n]]
          /\ ev' = Event(method, h, FALSE, "closed", Lookup(h).id, 200, 0, "")
     ELSE /\ ev' = Event(method, h, FALSE, "routed", Lookup(h).id, 0, 0, "")
          /\ UNCHANGED <<transports, tobj, deletions>>
  /\ UNCHANGED <<pending, nextTransport, nextServer, nextUuid, mintedBy>>
  /\ UNCHANGED <<httpVars, toolVars>>

\* A transport is closed by its owner (transport.close(), server.close()),
\* which runs transport.onclose (lines 401-405).  The transport may never have
\* been initialized: one that refused its initialization request has no
\* session id.  A transport whose creating POST has not yet dispatched its
\* message is held by that handler alone and is not closed.
TransportCloses(t) ==
  /\ tobj[t].constructed
  /\ ~tobj[t].closed
  /\ t \notin pending
  /\ tobj' = [tobj EXCEPT ![t].closed = TRUE]
  /\ transports' = OnClose(t)
  /\ deletions' = [n \in Transports |->
                     IF n \in DOMAIN transports /\ n \notin DOMAIN OnClose(t)
                     THEN deletions[n] + 1 ELSE deletions[n]]
  /\ ev' = IF tobj[t].sessionId # 0
           THEN Event("close", UuidHeader(tobj[t].sessionId), FALSE, "closed", t, 0, 0, "")
           ELSE Event("close", NoHeader, FALSE, "closed-uninitialized", t, 0, 0, "")
  /\ UNCHANGED <<pending, nextTransport, nextServer, nextUuid, mintedBy>>
  /\ UNCHANGED <<httpVars, toolVars>>

MuxNext ==
  \/ \E h \in HeaderValues, init \in BOOLEAN : PostMcp(h, init)
  \/ \E t \in Transports, accepted \in BOOLEAN : PostDispatch(t, accepted)
  \/ \E m \in {"GET", "DELETE"}, h \in HeaderValues, accepted \in BOOLEAN :
       SessionRequest(m, h, accepted)


\* =================================================== the http_request tool
WhiteSpace == {" ", "\t", "\n"}

RECURSIVE TrimStart(_)
TrimStart(s) == IF s # <<>> /\ s[1] \in WhiteSpace THEN TrimStart(Tail(s)) ELSE s

RECURSIVE TrimEnd(_)
TrimEnd(s) ==
  IF s # <<>> /\ s[Len(s)] \in WhiteSpace THEN TrimEnd(SubSeq(s, 1, Len(s) - 1)) ELSE s

\* String.prototype.trim
trim(s) == TrimEnd(TrimStart(s))

\* Number(v) of a string: the numeric value of the trimmed text, 0 for the
\* empty text, NaN for what is no numeric literal.  Literals read: an optional
\* minus sign, decimal digits, an optional exponent; and Infinity.
NaN == [t |-> "nan"]
Infinity == [t |-> "inf"]
DigitChars == <<"0", "1", "2", "3", "4", "5", "6", "7", "8", "9">>
IsDigits(s) == s # <<>> /\ \A i \in 1..Len(s) : \E d \in 1..10 : DigitChars[d] = s[i]

RECURSIVE DigitsValue(_)
DigitsValue(s) ==
  IF s = <<>> THEN 0
  ELSE DigitsValue(SubSeq(s, 1, Len(s) - 1)) * 10
         + ((CHOOSE d \in 1..10 : DigitChars[d] = s[Len(s)]) - 1)

RECURSIVE Pow10(_)
Pow10(n) == IF n = 0 THEN 1 ELSE 10 * Pow10(n - 1)

UnsignedLiteral(s) ==
  LET es == {i \in 1..Len(s) : s[i] \in {"e", "E"}}
  IN IF es = {}
     THEN IF IsDigits(s) THEN JsNum(DigitsValue(s)) ELSE NaN
     ELSE LET i == CHOOSE j \in es : TRUE
          IN IF Cardinality(es) = 1 /\ IsDigits(SubSeq(s, 1, i - 1))
                  /\ IsDigits(SubSeq(s, i + 1, Len(s)))
             THEN JsNum(DigitsValue(SubSeq(s, 1, i - 1)) * Pow10(DigitsValue(SubSeq(s, i + 1, Len(s)))))
             ELSE NaN

Number(v) ==
  LET t == trim(v)
  IN IF t = <<>> THEN JsNum(0)
     ELSE IF t = <<"Infinity">> THEN Infinity
     ELSE IF t[1] = "-"
     THEN (IF UnsignedLiteral(Tail(t)).t = "num"
           THEN JsNum(0 - UnsignedLiteral(Tail(t)).n) ELSE NaN)
     ELSE UnsignedLiteral(t)

NumberIsFinite(n) == n.t = "num"

\* Mutant: the test for a blank text is left out.
NormValue_BlankIsZero(v) ==
  IF v = <<"true">> THEN JsBool(TRUE)
  ELSE IF v = <<"false">> THEN JsBool(FALSE)
  ELSE IF NumberIsFinite(Number(v)) THEN Number(v) ELSE JsStr(v)

\* The callback of the map over the query entries (lines 455-460).
NormValue(v) ==
  IF v = <<"true">> THEN JsBool(TRUE)
  ELSE IF v = <<"false">> THEN JsBool(FALSE)
  ELSE IF NumberIsFinite(Number(v)) /\ trim(v) # <<>> THEN Number(v) ELSE JsStr(v)

normQuery(query) ==
  IF Truthy(query)
  THEN JsArr([i \in 1..Len(query.a) |-> [k |-> query.a[i].k, v |-> NormValue(query.a[i].v.s)]])
  ELSE Undefined

\* The argument of httpCall (lines 464-471); an absent headers argument is the
\* empty map there (line 46).
ToolOpts(a) ==
  [url |-> a.url,
   method |-> IF a.method = Undefined THEN "GET" ELSE a.method.s,
   headers |-> IF a.headers = Undefined THEN EmptyObj ELSE a.headers.o,
   query |-> normQuery(a.query),
   body |-> a.body,
   timeoutMs |-> a.timeoutMs]

\* JSON.stringify(value, null, 2)
JsonStringify(v) ==
  CASE v = JsObj([a |-> 1]) -> <<"{", "\n", "  ", "\"a\"", ": ", "1", "\n", "}">>
    [] v.t = "str" -> <<"\"">> \o v.s \o <<"\"">>
    [] OTHER -> ToStr(v)

\* s.length, in characters
RECURSIVE CharLen(_)
CharLen(s) == IF s = <<>> THEN 0 ELSE Len(s[1]) + CharLen(Tail(s))

\* s.slice(0, n)
RECURSIVE Slice(_, _)
Slice(s, n) ==
  IF s = <<>> \/ n <= 0 THEN <<>>
  ELSE IF Len(s[1]) <= n THEN <<s[1]>> \o Slice(Tail(s), n - Len(s[1]))
  ELSE <<SubSeq(s[1], 1, n)>>

PreviewLimit == 8000
Marker == <<"[truncated]">>

BodyPreview(r) == IF Truthy(r.json) THEN JsonStringify(r.json) ELSE r.text

\* Mutant: a preview of exactly the limit is cut as well.
Trimmed_AtLimit(p) ==
  IF CharLen(p) >= PreviewLimit THEN Slice(p, PreviewLimit) \o Marker ELSE p

Trimmed(p) ==
  IF CharLen(p) > PreviewLimit THEN Slice(p, PreviewLimit) \o Marker ELSE p

Summary(r, method) ==
  <<"HTTP ", method, " ">> \o r.url \o <<" -> ">> \o Digits(r.status) \o <<" in ">>
    \o Digits(r.latencyMs) \o <<"ms">>

\* The code fence (three backquotes) is written ~~~ here.
PreviewBlock(t) == <<"Response preview:\n~~~json\n">> \o t \o <<"\n~~~">>

\* The value the handler returns after httpCall returned r (lines 473-493).
ToolResult(r, method) ==
  [content |-> << [type |-> "text", text |-> <<"OK ">> \o Summary(r, method)],
                  [type |-> "text", text |-> PreviewBlock(Trimmed(BodyPreview(r)))] >>,
   structuredContent |->
     [ok |-> r.ok,
      status |-> r.status,
      latencyMs |-> r.latencyMs,
      headers |-> r.headers,
      request |-> [method |-> r.method, headers |-> r.requestHeaders, url |-> r.url],
      bodyJson |-> IF r.json = Undefined THEN JsNull ELSE r.json,
      bodyTextPreview |-> Trimmed(BodyPreview(r)),
      error |-> IF "error" \in DOMAIN r THEN JsStr(r.error) ELSE JsNull]]

\* The guard's result (lines 442-447).
MissingUrl ==
  [isError |-> TRUE,
   content |-> << [type |-> "text", text |-> <<"Missing required \"url\" (absolute URL).">>] >>]

\* The handler of http_request up to `await httpCall(...)` (lines 440-471).
ToolBegin(a) ==
  /\ env = "tool"
  /\ tpc = "idle"
  /\ targs' = a
  /\ IF ~Truthy(JsStr(a.url))
     THEN /\ tpc' = "returned"
          /\ tout' = MissingUrl
          /\ UNCHANGED httpVars
     ELSE /\ Enter(1, ToolOpts(a))
          /\ tpc' = "awaiting"
          /\ UNCHANGED tout
  /\ UNCHANGED muxVars

\* The handler resumes when httpCall has settled: it returns its result, or
\* fails with the error httpCall threw (lines 473-493).
ToolEnd ==
  /\ tpc = "awaiting"
  /\ pc[1] \in {"returned", "threw"}
  /\ IF pc[1] = "threw"
     THEN /\ tpc' = "rejected"
          /\ UNCHANGED tout
     ELSE /\ tpc' = "returned"
          /\ tout' = ToolResult(result[1], ToolOpts(targs).method)
  /\ UNCHANGED <<targs, httpVars, muxVars>>

ToolNext ==
  \/ \E a \in ToolArgs : ToolBegin(a)
  \/ ToolEnd
  \/ \E c \in Env.calls, e \in ConnectErrors, r \in Randoms : RequestFails(c, e, r)
  \/ \E c \in Env.calls, r \in Randoms : \E tm \in timers[c] : TimerFires(c, tm, r)
  \/ \E c \in Env.calls, rsp \in Env.responses : ResponseArrives(c, rsp)
  \/ \E c \in Env.calls, b \in Env.bodies : BodyRead(c, b)
  \/ \E c \in Env.calls, e \in BodyErrors, r \in Randoms : BodyFails(c, e, r)
  \/ \E c \in Env.calls : DelayElapsed(c)
  \/ Tick

\* --------------------------------------------------------- specifications
SpecHttp == Init /\ [][HttpNext]_vars
SpecMux == Init /\ [][MuxNext]_vars
SpecTool == Init /\ [][ToolNext]_vars

\* The multiplexer with transports that close by themselves as well.
MuxClosuresNext ==
  \/ \E h \in HeaderValues, init \in BOOLEAN : PostMcp(h, init)
  \/ \E t \in Transports, accepted \in BOOLEAN : PostDispatch(t, accepted)
  \/ \E m \in {"GET", "DELETE"}, h \in HeaderValues, accepted \in BOOLEAN :
       SessionRequest(m, h, accepted)
  \/ \E t \in Transports : TransportCloses(t)

SpecMuxClosures == Init /\ [][MuxClosuresNext]_vars

\* ================================================================ claims
Ended(c) == pc[c] = "returned"

\* C1: a call whose every attempt fails at transport level makes exactly
\* MAX_RETRIES+1 attempts (no call ever makes more) and returns ok=false,
\* status=0 and a non-empty error string.
C1_RetryBudget ==
  \A c \in Calls :
    /\ attemptsMade[c] <= MAX_RETRIES + 1
    /\ (Ended(c) /\ bodiesRead[c] = 0) =>
         /\ attemptsMade[c] = MAX_RETRIES + 1
         /\ result[c].ok = FALSE
         /\ result[c].status = 0
         /\ "error" \in DOMAIN result[c]
         /\ result[c].error # <<>>

\* Every attempt of a call timed out and the failure result came back.
C1_Witness ==
  \E c \in Calls :
    /\ Ended(c)
    /\ timedOut[c] = MAX_RETRIES + 1
    /\ attemptsMade[c] = MAX_RETRIES + 1
    /\ result[c].error = <<"timeout">>

\* C2 as stated: once an attempt has received a response (request() resolved),
\* no further attempt is started and the result carries that response's status.
C2_NoRetryAfterResponse ==
  \A c \in Calls :
    gotResponse[c] > 0 =>
      /\ pc[c] \in {"body", "returned"}
      /\ gotResponse[c] = 1
      /\ Ended(c) => result[c].status = res[c].statusCode

\* C2 amended: once an attempt has received a response and read its body to
\* the end, the call has returned with that response's status and starts no
\* further attempt; a 500 read on the first attempt gives ok=false, status=500
\* after exactly one attempt.
C2_NoRetryAfterCompleteResponse ==
  /\ [](\A c \in Calls :
          bodiesRead[c] > 0 =>
            /\ Ended(c)
            /\ bodiesRead[c] = 1
            /\ result[c].status = res[c].statusCode
            /\ attemptsMade[c] = attempt[c] + 1
            /\ (res[c].statusCode = 500 /\ attempt[c] = 0) =>
                 /\ result[c].ok = FALSE
                 /\ result[c].status = 500
                 /\ attemptsMade[c] = 1)
  /\ [][\A c \in Calls :
          bodiesRead[c] > 0 =>
            /\ attemptsMade'[c] = attemptsMade[c]
            /\ result'[c] = result[c]]_vars

\* A 500 was answered and read on the first attempt.
C2_Witness ==
  \E c \in Calls :
    /\ Ended(c)
    /\ attemptsMade[c] = 1
    /\ bodiesRead[c] = 1
    /\ result[c].status = 500
    /\ result[c].ok = FALSE

\* C3: httpCall never raises; every call ends by returning a CallResult.
C3_NeverRaises == \A c \in Calls : pc[c] # "threw"

\* C4: in every returned CallResult ok holds iff status is in [200,300); a
\* result built from a response has the delivered body as text, has json only
\* if that body parses as JSON, and has no error field; a result built after
\* the retries were exhausted has status=0, ok=false, an error, text="" and
\* no json.
C4_ResultShape ==
  \A c \in Calls :
    Ended(c) =>
      /\ result[c].ok = (result[c].status \in 200..299)
      /\ bodiesRead[c] > 0 =>
           /\ result[c].status = res[c].statusCode
           /\ result[c].text = rawBody[c]
           /\ (result[c].json # Undefined) => JsonParses(rawBody[c])
           /\ "error" \notin DOMAIN result[c]
      /\ bodiesRead[c] = 0 =>
           /\ result[c].status = 0
           /\ result[c].ok = FALSE
           /\ "error" \in DOMAIN result[c]
           /\ result[c].text = <<>>
           /\ result[c].json = Undefined

\* A 299 with a JSON body came back: ok, with json and the body as text.
C4_Witness ==
  \E c \in Calls :
    /\ Ended(c)
    /\ result[c].status = 299
    /\ result[c].ok
    /\ result[c].json = JsObj([a |-> 1])
    /\ result[c].text = <<"{\"a\":1}">>

\* C5: no attempt stays in flight longer than timeoutMs after it started.
C5_AttemptBounded ==
  \A c \in Calls :
    inflight[c] # {} => now - attemptStart[c] <= TimeoutOf(opts[c])

\* C6: at most one attempt of a call is in flight, it is the current one, and
\* a retry starts only after the previous attempt failed and its backoff
\* elapsed.
C6_SequentialAttempts ==
  \A c \in Calls :
    /\ Cardinality(inflight[c]) <= 1
    /\ inflight[c] # {} <=> pc[c] \in {"request", "body"}
    /\ inflight[c] # {} => inflight[c] = {attempt[c]}
    /\ (pc[c] \in {"request", "body"} /\ attempt[c] > 0) =>
         /\ delays[c] = attempt[c]
         /\ attemptStart[c] >= failedAt[c] + delayMs[c]

\* Two calls are in flight at once, one of them on a retry.
C6_Witness ==
  /\ env = "concurrent"
  /\ \E c, d \in Calls :
       /\ c # d
       /\ inflight[c] # {} /\ attempt[c] > 0
       /\ inflight[d] # {}

BackoffInRange(c) ==
  /\ BackoffBase * (attempt[c] + 1) <= delayMs[c]
  /\ delayMs[c] < BackoffBase * (attempt[c] + 1) + JitterSpan

\* The waits of a call: after failed attempt i < MAX_RETRIES a wait within the
\* backoff range that ends no sooner than asked; none after the last attempt.
BackoffShape(c) ==
  /\ pc[c] = "delay" =>
       /\ attempt[c] < MAX_RETRIES
       /\ BackoffInRange(c)
       /\ wake[c] = failedAt[c] + delayMs[c]
       /\ now <= wake[c]
  /\ delays[c] <= MAX_RETRIES
  /\ (Ended(c) /\ bodiesRead[c] = 0) =>
       /\ delays[c] = MAX_RETRIES
       /\ result[c].latencyMs = failedAt[c] - started[c]

\* C7 as stated: the backoff shape, and no wait follows an attempt that
\* received a response.
C7_Backoff ==
  \A c \in Calls :
    /\ BackoffShape(c)
    /\ pc[c] = "delay" => gotResponse[c] = 0

\* C7 amended: the backoff shape, and no wait follows an attempt whose
\* response body was read to the end (a response whose body fails to arrive is
\* a failed attempt and is followed by a wait like any other).
C7_BackoffAmended ==
  \A c \in Calls :
    /\ BackoffShape(c)
    /\ pc[c] = "delay" => bodiesRead[c] = 0

\* The second attempt failed and the call waits 300 ms plus jitter.
C7_Witness ==
  \E c \in Calls :
    /\ pc[c] = "delay"
    /\ attempt[c] = 1
    /\ delayMs[c] > 2 * BackoffBase

Live(h) == h.k = "uuid" /\ h.n \in DOMAIN transports

\* C8: a request carrying the identifier of a live session is handled by the
\* transport that minted that identifier (and so by that transport's own
\* server), and handling it constructs no transport and no server.
C8_SessionReuse ==
  /\ [](\A n \in DOMAIN transports :
          /\ transports[n] = mintedBy[n]
          /\ tobj[transports[n]].sessionId = n
          /\ tobj[transports[n]].server = transports[n])
  /\ []((ev.outcome \in {"routed", "closed"}) =>
          /\ ev.hdr.k = "uuid"
          /\ ev.transport = mintedBy[ev.hdr.n])
  /\ [][(ev'.kind = "POST" /\ Live(ev'.hdr)) =>
          /\ ev'.outcome = "routed"
          /\ ev'.transport = mintedBy[ev'.hdr.n]
          /\ nextTransport' = nextTransport
          /\ nextServer' = nextServer
          /\ tobj' = tobj
          /\ transports' = transports]_vars

\* With two sessions live, a POST carrying the first one's identifier was
\* routed to the first transport.
C8_Witness ==
  /\ Cardinality(DOMAIN transports) >= 2
  /\ ev.kind = "POST"
  /\ ev.outcome = "routed"
  /\ ev.hdr = UuidHeader(1)
  /\ ev.transport = 1

WasClosed(n) == \E t \in Transports : tobj[t].closed /\ tobj[t].sessionId = n

\* C9: a session's entry is deleted exactly once, in the step that closes its
\* transport and in no other; afterwards no request with that identifier is
\* routed to a transport, and a POST with it gets the -32000 error.
C9_ClosureDeletesOnce ==
  /\ [](\A n \in Transports : deletions[n] <= 1)
  /\ [](\A t \in Transports :
          tobj[t].closed =>
            /\ tobj[t].sessionId # 0
            /\ tobj[t].sessionId \notin DOMAIN transports
            /\ deletions[tobj[t].sessionId] = 1)
  /\ [](ev.outcome = "routed" => ~tobj[ev.transport].closed)
  /\ []((ev.kind = "POST" /\ ev.hdr.k = "uuid" /\ WasClosed(ev.hdr.n)) =>
          /\ ev.outcome = "rejected"
          /\ ev.status = 400
          /\ ev.code = RejectCode
          /\ ev.message = RejectMessage)
  /\ [][\A n \in DOMAIN transports :
          n \notin DOMAIN transports' =>
            /\ ~tobj[transports[n]].closed
            /\ tobj'[transports[n]].closed
            /\ ev'.outcome = "closed"
            /\ ev'.transport = transports[n]]_vars

\* A POST carrying the identifier of a closed session was rejected.
C9_Witness ==
  /\ ev.kind = "POST"
  /\ ev.hdr.k = "uuid"
  /\ WasClosed(ev.hdr.n)
  /\ deletions[ev.hdr.n] = 1
  /\ ev.outcome = "rejected"

\* C10: a POST whose session identifier is absent or not a session of the map
\* and whose payload is no initialization message is answered with the -32000
\* error, and nothing else happens: no transport or server is constructed, no
\* transport handles it, the map is unchanged.
C10_RejectUnknown ==
  /\ []((ev.kind = "POST" /\ ~ev.init /\ ~Live(ev.hdr)) =>
          /\ ev.outcome = "rejected"
          /\ ev.status = 400
          /\ ev.code = RejectCode
          /\ ev.message = RejectMessage
          /\ ev.transport = 0)
  /\ [][(ev'.kind = "POST" /\ ~ev'.init /\ ~Live(ev'.hdr)) =>
          /\ nextTransport' = nextTransport
          /\ nextServer' = nextServer
          /\ tobj' = tobj
          /\ transports' = transports]_vars

\* The request carries no session identifier: the header is absent or empty.
NoIdentifier(h) == h = NoHeader \/ h = StrHeader("")

\* What C11 holds of every POST: a transport and a server are constructed
\* exactly by a POST without identifier whose payload is an initialization
\* message, one of each, the transport connected to that server and awaiting
\* its dispatch; only a dispatch mints an identifier, a fresh one, for a
\* connected transport that had none.
CreationExactly ==
  /\ []((ev.kind = "POST" /\ NoIdentifier(ev.hdr) /\ ev.init) =>
          /\ ev.outcome = "created"
          /\ ev.transport = nextTransport
          /\ tobj[ev.transport].constructed
          /\ tobj[ev.transport].server = nextServer
          /\ tobj[ev.transport].sessionId = 0
          /\ ev.transport \in pending)
  /\ [](ev.outcome = "created" => (ev.kind = "POST" /\ NoIdentifier(ev.hdr) /\ ev.init))
  /\ [](nextTransport = nextServer)
  /\ [](\A t, u \in Transports :
          (t # u /\ tobj[t].constructed /\ tobj[u].constructed) =>
            /\ tobj[t].server # tobj[u].server
            /\ tobj[t].sessionId # 0 => tobj[t].sessionId # tobj[u].sessionId)
  /\ [][(nextTransport' # nextTransport \/ nextServer' # nextServer) =>
          /\ ev'.kind = "POST" /\ NoIdentifier(ev'.hdr) /\ ev'.init
          /\ nextTransport' = nextTransport + 1
          /\ nextServer' = nextServer + 1
          /\ ~tobj[nextTransport'].constructed
          /\ transports' = transports
          /\ nextUuid' = nextUuid]_vars
  /\ [][\A t \in Transports :
          tobj'[t].sessionId # tobj[t].sessionId =>
            /\ t \in pending /\ t \notin pending'
            /\ tobj[t].sessionId = 0
            /\ tobj[t].server # 0
            /\ tobj'[t].sessionId = nextUuid + 1
            /\ nextUuid' = nextUuid + 1
            /\ mintedBy[nextUuid + 1] = 0
            /\ ev'.outcome = "initialized" /\ ev'.transport = t]_vars

\* C11 as stated: session creation happens exactly when the POST carries no
\* identifier and an initialization message; then a transport and a server are
\* constructed and connected before the message is dispatched, and the
\* dispatch of the message mints a fresh identifier.
C11_SessionCreation ==
  /\ CreationExactly
  /\ [](ev.kind = "POST-dispatch" =>
          /\ ev.outcome = "initialized"
          /\ tobj[ev.transport].sessionId # 0)

\* C11 amended: as above, but the identifier is minted only when the
\* transport accepts the initialization request; a transport that refuses it
\* (host outside the allow-list, unacceptable headers) stays without
\* identifier and out of the session map.
C11_SessionCreationAmended ==
  /\ CreationExactly
  /\ [](ev.kind = "POST-dispatch" =>
          \/ ev.outcome = "initialized" /\ tobj[ev.transport].sessionId = nextUuid
          \/ /\ ev.outcome = "refused"
             /\ tobj[ev.transport].sessionId = 0
             /\ \A n \in DOMAIN transports : transports[n] # ev.transport)

\* The second session was created by a POST with an empty identifier header
\* and then initialized.
C11_Witness ==
  /\ ev.outcome = "initialized"
  /\ ev.transport = 2
  /\ tobj[2].sessionId = nextUuid
  /\ tobj[2].server = 2
  /\ tobj[1].constructed

\* C12 as stated: the new session is in the map before its initialization
\* message is dispatched, that is while the creating POST still awaits
\* server.connect and transport.handleRequest has not been called.
C12_AtomicMutation ==
  \A t \in pending : \E n \in DOMAIN transports : transports[n] = t

\* C12 amended: the identifier is minted and inserted in one step, inside
\* transport.handleRequest for the initialization message (not before it is
\* called); until then the transport has no identifier.  The closure removes
\* the entry in the step that closes the transport.  So every transport that
\* has an identifier and is open is registered under it, and no closed one is.
C12_AtomicMutationAmended ==
  /\ [](\A t \in Transports :
          /\ t \in pending => tobj[t].sessionId = 0
          /\ (tobj[t].sessionId # 0 /\ ~tobj[t].closed) =>
               /\ tobj[t].sessionId \in DOMAIN transports
               /\ transports[tobj[t].sessionId] = t
          /\ tobj[t].closed => \A n \in DOMAIN transports : transports[n] # t)
  /\ [][\A n \in Transports :
          /\ (n \notin DOMAIN transports /\ n \in DOMAIN transports') =>
               /\ ev'.outcome = "initialized"
               /\ tobj[transports'[n]].sessionId = 0
               /\ tobj'[transports'[n]].sessionId = n
          /\ (n \in DOMAIN transports /\ n \notin DOMAIN transports') =>
               /\ ev'.outcome = "closed"
               /\ ~tobj[transports[n]].closed
               /\ tobj'[transports[n]].closed]_vars

\* A session was initialized after another one was closed, while a third
\* transport awaits its dispatch.
C12_Witness ==
  /\ ev.outcome = "initialized"
  /\ \E t \in Transports : tobj[t].closed
  /\ pending # {}

\* C13: a GET or DELETE whose identifier is missing or not a key of the map
\* gets the plain 400 response, reaches no transport and leaves the map
\* unchanged; one with a live identifier is routed to that session's transport.
C13_SessionRequired ==
  /\ []((ev.kind \in {"GET", "DELETE"} /\ ev.outcome # "closed" /\ ~Live(ev.hdr)) =>
          /\ ev.outcome = "rejected"
          /\ ev.status = 400
          /\ ev.message = PlainReject
          /\ ev.transport = 0)
  /\ []((ev.kind \in {"GET", "DELETE"} /\ ev.outcome \in {"routed", "closed"}) =>
          /\ ev.hdr.k = "uuid"
          /\ ev.transport = mintedBy[ev.hdr.n])
  /\ [][(ev'.kind \in {"GET", "DELETE"} /\ ev'.outcome \notin {"routed", "closed"}) =>
          transports' = transports]_vars

\* The headers httpCall passes to request() on every attempt (line 83).
SentHeaders(c) == FinalHeaders(opts[c], API_TOKEN)

\* A header name that contains "authorization" or "api-key", in any case.
SensitiveKey(k) ==
  \E i \in 1..Len(k) :
     k[i] \in {"authorization", "Authorization", "AUTHORIZATION", "api-key", "Api-Key"}

\* C15: requestHeaders of every result, success or total failure, has the
\* keys of the headers sent; a key containing "authorization" or "api-key" in
\* any case carries the redaction marker, every other key its value as sent.
C15_HeaderRedaction ==
  \A c \in Calls :
    Ended(c) =>
      /\ DOMAIN result[c].requestHeaders = DOMAIN SentHeaders(c)
      /\ \A k \in DOMAIN SentHeaders(c) :
           result[c].requestHeaders[k] =
             IF SensitiveKey(k) THEN Redacted ELSE SentHeaders(c)[k]

\* A total failure whose result redacts the caller's X-Api-Key and the
\* configured authorization and keeps user-agent and content-type.
C15_Witness ==
  \E c \in Calls :
    /\ Ended(c)
    /\ "error" \in DOMAIN result[c]
    /\ opts[c] = ReqFull
    /\ API_TOKEN # <<>>
    /\ result[c].requestHeaders[<<"X-", "Api-Key">>] = Redacted
    /\ result[c].requestHeaders[<<"authorization">>] = Redacted
    /\ result[c].requestHeaders[<<"user-agent">>] = <<"mcp-api-tester/1.0">>
    /\ result[c].requestHeaders[<<"content-type">>] = <<"application/json">>

\* C16: the headers sent on every attempt contain the fixed user-agent,
\* contain content-type: application/json exactly when a body is present (body
\* neither null nor undefined), contain the configured token as authorization
\* exactly when a token is configured, and a header the caller supplies under
\* one of these names is sent with the caller's value.
C16_HeaderComposition ==
  \A c \in Calls :
    attemptsMade[c] > 0 =>
      LET h == SentHeaders(c)
          caller == opts[c].headers
          present == opts[c].body # Undefined /\ opts[c].body # JsNull
      IN /\ <<"user-agent">> \in DOMAIN h
         /\ <<"user-agent">> \notin DOMAIN caller => h[<<"user-agent">>] = <<"mcp-api-tester/1.0">>
         /\ <<"content-type">> \notin DOMAIN caller =>
              /\ <<"content-type">> \in DOMAIN h <=> present
              /\ present => h[<<"content-type">>] = <<"application/json">>
         /\ <<"authorization">> \notin DOMAIN caller =>
              /\ <<"authorization">> \in DOMAIN h <=> API_TOKEN # <<>>
              /\ API_TOKEN # <<>> => h[<<"authorization">>] = API_TOKEN
         /\ \A k \in DOMAIN caller : h[k] = caller[k]

\* The least time the waits before attempt number k take.
RECURSIVE BackoffFloor(_)
BackoffFloor(k) == IF k = 0 THEN 0 ELSE BackoffFloor(k - 1) + BackoffBase * k

\* C19: latencyMs is the time from the start of the first attempt to the final
\* outcome: the clock at the return minus the clock at the first attempt,
\* which covers every earlier attempt and every backoff wait, so after k failed
\* attempts it exceeds the duration of the last attempt by the waits.
C19_CumulativeLatency ==
  /\ [](\A c \in Calls :
          /\ pc[c] \in {"request", "body"} =>
               /\ attempt[c] = 0 => attemptStart[c] = started[c]
               /\ attemptStart[c] - started[c] >= BackoffFloor(attempt[c])
          /\ (Ended(c) /\ bodiesRead[c] > 0) =>
               /\ result[c].latencyMs >= attemptStart[c] - started[c]
               /\ result[c].latencyMs >= BackoffFloor(attempt[c])
          /\ (Ended(c) /\ bodiesRead[c] = 0) =>
               /\ result[c].latencyMs = failedAt[c] - started[c]
               /\ result[c].latencyMs >= BackoffFloor(MAX_RETRIES))
  /\ [][\A c \in Calls :
          /\ (~Ended(c) /\ Ended(c)') =>
               /\ result'[c].latencyMs = now' - started[c]
               /\ result'[c].latencyMs = (now' - attemptStart[c]) + (attemptStart[c] - started[c])
          /\ pc[c] # "idle" => started'[c] = started[c]
          /\ Ended(c) => result'[c] = result[c]]_vars

\* A response was read on the third attempt: the latency covers both waits and
\* is more than the third attempt took.
C19_Witness ==
  \E c \in Calls :
    /\ Ended(c)
    /\ bodiesRead[c] = 1
    /\ attempt[c] = MAX_RETRIES
    /\ result[c].latencyMs >= BackoffFloor(MAX_RETRIES)
    /\ result[c].latencyMs > now - attemptStart[c]

\* The timer tm of call c no longer belongs to an attempt in flight.
Stale(c, tm) == tm.attempt < attempt[c] \/ pc[c] \notin {"request", "body"}

\* C20: every attempt in flight has a timer of its own, armed when it began;
\* a timer that fires after its attempt has ended changes nothing: the attempt
\* in flight of the same call and every other call go on as they were.
C20_TimersPerAttempt ==
  /\ [](\A c \in Calls :
          /\ \A tm \in timers[c] : tm.attempt <= attempt[c]
          /\ \A tm, tn \in timers[c] : tm.attempt = tn.attempt => tm = tn
          /\ pc[c] = "request" =>
               [attempt |-> attempt[c],
                deadline |-> attemptStart[c] + TimeoutOf(opts[c])] \in timers[c])
  /\ [][\A c \in Calls :
          \A tm \in timers[c] \ timers'[c] :
            Stale(c, tm) =>
              /\ pc' = pc
              /\ inflight' = inflight
              /\ attempt' = attempt
              /\ lastErr' = lastErr
              /\ result' = result
              /\ timedOut' = timedOut
              /\ timers' = [timers EXCEPT ![c] = @ \ {tm}]]_vars

\* The timer of the first attempt, which failed at once, has fired while the
\* second attempt is in flight, and the second attempt is still in flight.
C20_Witness ==
  \E c \in Calls :
    /\ pc[c] = "request"
    /\ attempt[c] = 1
    /\ inflight[c] = {1}
    /\ gotResponse[c] = 0
    /\ timedOut[c] = 0
    /\ now >= started[c] + TimeoutOf(opts[c])
    /\ \A tm \in timers[c] : tm.attempt = 1

\* The arguments pass the tool's schema: url is a URL, the rest strings.
ValidArgs(a) == a.url # <<>>

\* C14: every http_request invocation with valid arguments returns a result
\* without the error flag that has content blocks and structuredContent;
\* structuredContent has ok=false and a string as error exactly when every
\* attempt failed, and error=null when a response was received.
C14_FailureIsOutput ==
  (tpc # "idle" /\ ValidArgs(targs)) =>
    /\ tpc # "rejected"
    /\ tpc = "returned" =>
         /\ "isError" \notin DOMAIN tout
         /\ Len(tout.content) > 0
         /\ "structuredContent" \in DOMAIN tout
         /\ (tout.structuredContent.ok = FALSE /\ tout.structuredContent.error.t = "str")
              <=> bodiesRead[1] = 0
         /\ bodiesRead[1] > 0 => tout.structuredContent.error = JsNull

\* What the normalization is to give for the query values sent.
NormExpected(v) ==
  CASE v = <<"true">> -> JsBool(TRUE)
    [] v = <<"false">> -> JsBool(FALSE)
    [] v = <<"5">> -> JsNum(5)
    [] v = <<" ", "5">> -> JsNum(5)
    [] v = <<"1", "e", "9">> -> JsNum(1000000000)
    [] v = <<"-", "1", "5", " ">> -> JsNum(0 - 15)
    [] OTHER -> JsStr(v)

\* C17: the query the handler passes to httpCall has the keys of the query
\* argument, in its order; "true" and "false" are the booleans, a text whose
\* trimmed form is a finite number is that number, and every other text ("",
\* blanks, "NaN", "Infinity", "TRUE", ...) is the identical string.
C17_QueryNormalization ==
  (tpc # "idle" /\ ValidArgs(targs)) =>
    IF targs.query = Undefined THEN opts[1].query = Undefined
    ELSE /\ opts[1].query.t = "arr"
         /\ Len(opts[1].query.a) = Len(targs.query.a)
         /\ \A i \in 1..Len(targs.query.a) :
              /\ opts[1].query.a[i].k = targs.query.a[i].k
              /\ opts[1].query.a[i].v = NormExpected(targs.query.a[i].v.s)

\* An invocation with q=" 5" called httpCall with the number 5, and one with
\* the two keys a and b kept both.
C17_Witness ==
  /\ tpc = "returned"
  /\ targs.query = QueryOf(<<" ", "5">>)
  /\ opts[1].query = JsArr(<< [k |-> <<"q">>, v |-> JsNum(5)] >>)
  /\ tout.structuredContent.request.url = <<"https://example.test/ok", "?", "q", "=", "5">>

\* b is a prefix of p, character by character.
IsPrefix(b, p) ==
  /\ Len(b) <= Len(p)
  /\ \A i \in 1..Len(b) :
       IF i < Len(b) THEN b[i] = p[i]
       ELSE Len(b[i]) <= Len(p[i]) /\ b[i] = SubSeq(p[i], 1, Len(b[i]))

\* C18: a preview longer than 8000 characters is emitted as its first 8000
\* characters and the truncation marker, a preview of at most 8000 characters
\* unchanged and without marker; the content block and bodyTextPreview carry
\* the same text.
C18_PreviewTruncation ==
  (tpc = "returned" /\ "structuredContent" \in DOMAIN tout) =>
    LET p == BodyPreview(result[1])
        t == tout.structuredContent.bodyTextPreview
    IN /\ CharLen(p) > 8000 =>
            /\ Len(t) > 1
            /\ <<t[Len(t)]>> = Marker
            /\ CharLen(SubSeq(t, 1, Len(t) - 1)) = 8000
            /\ IsPrefix(SubSeq(t, 1, Len(t) - 1), p)
       /\ CharLen(p) <= 8000 => t = p
       /\ tout.content[2].text = PreviewBlock(t)

\* A body of 8001 characters came back and was cut, marker added.
C18_Witness ==
  /\ tpc = "returned"
  /\ rawBody[1] = Text8001
  /\ CharLen(BodyPreview(result[1])) = 8001
  /\ tout.structuredContent.bodyTextPreview = Text8000 \o Marker

\* The request carries an identifier (a non-empty header) that is no key of
\* the session map.
UnknownIdentifier(h) == ~NoIdentifier(h) /\ ~Live(h)

\* C21: a POST whose identifier is non-empty and no key of the session map
\* gets the -32000 error whatever its payload, initialization message or not;
\* it creates no session and reaches no transport.
C21_UnknownIdNeverCreates ==
  /\ []((ev.kind = "POST" /\ UnknownIdentifier(ev.hdr)) =>
          /\ ev.outcome = "rejected"
          /\ ev.status = 400
          /\ ev.code = RejectCode
          /\ ev.message = RejectMessage
          /\ ev.transport = 0)
  /\ [][(ev'.kind = "POST" /\ UnknownIdentifier(ev'.hdr)) =>
          /\ nextTransport' = nextTransport
          /\ nextServer' = nextServer
          /\ pending' = pending
          /\ transports' = transports]_vars

\* C22: in every state reached by POST, GET and DELETE requests and transport
\* closures in any order, every key of the map is the identifier minted by the
\* transport it maps to, that transport has completed its initialization and
\* is open, no two keys map to one transport, every transport is connected to
\* a server of its own, and the closure of a transport that was never
\* initialized leaves the map as it was.
C22_MapInvariant ==
  /\ [](\A n \in DOMAIN transports :
          /\ transports[n] \in Transports
          /\ tobj[transports[n]].constructed
          /\ mintedBy[n] = transports[n]
          /\ tobj[transports[n]].sessionId = n
          /\ transports[n] \notin pending
          /\ ~tobj[transports[n]].closed)
  /\ [](\A n, m \in DOMAIN transports : n # m => transports[n] # transports[m])
  /\ [](\A t, u \in Transports :
          (tobj[t].constructed /\ tobj[u].constructed /\ t # u) =>
            /\ tobj[t].server # 0
            /\ tobj[t].server # tobj[u].server)
  /\ [][\A t \in Transports :
          (~tobj[t].closed /\ tobj'[t].closed /\ tobj[t].sessionId = 0) =>
            transports' = transports]_vars

\* With a session live, a transport that had refused its initialization
\* request was closed, and the session is still in the map.
C22_Witness ==
  /\ ev.kind = "close"
  /\ ev.outcome = "closed-uninitialized"
  /\ tobj[ev.transport].closed
  /\ tobj[ev.transport].sessionId = 0
  /\ \E n \in DOMAIN transports : transports[n] # ev.transport
  /\ \E t \in Transports : tobj[t].closed /\ tobj[t].sessionId # 0

\* The request headers an invocation with arguments a is to report when a
\* token is configured, whatever the token: the keys sent, the sensitive ones
\* with the marker, the others with the caller's value or the fixed one.
TokenFreeHeaders(a) ==
  LET caller == IF a.headers = Undefined THEN EmptyObj ELSE a.headers.o
      fixed == [k \in {<<"user-agent">>, <<"content-type">>} |->
                  IF k = <<"user-agent">> THEN <<"mcp-api-tester/1.0">>
                  ELSE <<"application/json">>]
      keys == {<<"user-agent">>, <<"authorization">>}
                \cup (IF a.body # Undefined /\ a.body # JsStr(<<>>)
                      THEN {<<"content-type">>} ELSE {})
                \cup DOMAIN caller
  IN [k \in keys |->
        IF SensitiveKey(k) THEN Redacted
        ELSE IF k \in DOMAIN caller THEN caller[k] ELSE fixed[k]]

\* C23: two invocations of http_request that differ in the configured
\* non-empty token only and see the same outcomes return the same
\* requestHeaders and structuredContent.request.headers.  Shown for every
\* token at once: the headers returned are a function of the arguments alone,
\* and no value among them is the token.
C23_TokenNeverLeaks ==
  (tpc = "returned" /\ ValidArgs(targs) /\ API_TOKEN # <<>>) =>
    /\ result[1].requestHeaders = TokenFreeHeaders(targs)
    /\ tout.structuredContent.request.headers = TokenFreeHeaders(targs)
    /\ \A k \in DOMAIN tout.structuredContent.request.headers :
         tout.structuredContent.request.headers[k] # API_TOKEN

\* An invocation whose caller supplied its own authorization header returned
\* under the second token, the header redacted.
C23_Witness ==
  /\ tpc = "returned"
  /\ API_TOKEN = <<"Bearer abc">>
  /\ targs.headers = JsObj(OneHeader(<<"authorization">>, <<"Basic abc">>))
  /\ tout.structuredContent.request.headers[<<"authorization">>] = Redacted
  /\ bodiesRead[1] = 1
====
